---------------------------- MODULE Spec2Model ----------------------------
(***************************************************************************)
(* A model of AccelInferenceEngine (src/indextts/accel/accel_engine.py):   *)
(* the batched prefill/decode generation loop, its CUDA-graph capture and  *)
(* replay layer, and the sequence and cache bookkeeping it drives.         *)
(*                                                                         *)
(* One engine is constructed (Init) and generate() is called on it.  A     *)
(* call of generate() is a sequential program; the variable pc is its      *)
(* position, and each action is one stretch of generate() between two      *)
(* points where the call can be observed or can fail.                      *)
(*                                                                         *)
(* Seq, KVCacheManager and the forward context live in modules of the      *)
(* repository that are imported by the engine (kv_manager, attention);     *)
(* they are modelled from their documented contracts.                      *)
(***************************************************************************)
EXTENDS Integers, Sequences, FiniteSets, TLC

(***************************************************************************)
(* Bounds of the model.                                                    *)
(***************************************************************************)
\* largest max_new_tokens a call is given
MaxNew == 3
\* longest prompt (columns of input_ids)
MaxPromptLen == 2
\* longest conditioning-embedding sequence (tts_embeddings.size(1))
MaxEmb == 2
\* rows of a batch whose logits and samples are chosen independently; the
\* rows after them repeat the last independent row
FreeRows == 2
\* engine geometry (constructor arguments block_size, num_blocks)
BlockSize == 2
NumBlocks == 30
\* the token capacity the block-table buffer of the plans is sized for
\* (2048 in the source, scaled to the model's sequence lengths)
GraphMaxLen == 8
\* generate() calls made on one engine in a series of calls
MaxCalls == 2

(***************************************************************************)
(* Program constants.                                                      *)
(***************************************************************************)
\* the decode loop's batch ceiling
CudaGraphLimit == 8
\* rows of the plan buffers
MaxBs == 8
\* the placeholder token of the embedding-driven mode
PadToken == 1
\* the token the capture fills the input buffer with (8192 in the source:
\* the first id past the model's vocabulary)
CaptureToken == 4
\* captured batch sizes
graph_bs == <<1>>

Vocab == 1..3
StopChoices == {{}, {3}}
BatchSizes == {0, 1, 2, CudaGraphLimit + 1}

Min(a, b) == IF a < b THEN a ELSE b
Max(a, b) == IF a > b THEN a ELSE b

RECURSIVE SeqMax(_)
SeqMax(s) == IF s = <<>> THEN 0 ELSE Max(Head(s), SeqMax(Tail(s)))

RECURSIVE Flatten(_)
Flatten(ss) == IF ss = <<>> THEN <<>> ELSE Head(ss) \o Flatten(Tail(ss))

\* list(range(a, b))
Range(a, b) == [k \in 1..Max(b - a, 0) |-> a + k - 1]

\* [x] * n
Repeat(x, n) == [k \in 1..n |-> x]

(***************************************************************************)
(* Seq (kv_manager.Seq), from its use in the engine and the data model of  *)
(* the specification.                                                      *)
(***************************************************************************)
\* blocks needed for n tokens
BlocksFor(n) == (n + BlockSize - 1) \div BlockSize

\* Seq(token_ids)
NewSeq(token_ids) ==
    [token_ids |-> token_ids,
     num_prompt_tokens |-> Len(token_ids),
     num_cached_tokens |-> 0,
     block_table |-> <<>>,
     removed |-> 0,
     appends |-> 0]

\* len(req)
SeqLen(req) == Len(req.token_ids)

\* req.last_token
last_token(req) == req.token_ids[Len(req.token_ids)]

\* req.num_blocks
num_blocks(req) == BlocksFor(SeqLen(req))

\* req.num_cached_blocks
num_cached_blocks(req) == req.num_cached_tokens \div BlockSize

\* req.last_block_num_tokens
last_block_num_tokens(req) == SeqLen(req) - (num_blocks(req) - 1) * BlockSize

\* req.append_token(token_id)
append_token(req, token_id) ==
    [req EXCEPT !.token_ids = Append(@, token_id)]

(***************************************************************************)
(* KVCacheManager (kv_manager.KVCacheManager): allocate, append_to_seq,    *)
(* remove_seq over a pool of free block ids.  Each returns the sequence    *)
(* and the pool after the call.                                            *)
(***************************************************************************)
RECURSIVE TakeBlocks(_, _)
\* the n lowest free block ids, in order
TakeBlocks(free, n) ==
    IF n = 0 \/ free = {} THEN <<>>
    ELSE LET b == CHOOSE x \in free : \A y \in free : x <= y
         IN  <<b>> \o TakeBlocks(free \ {b}, n - 1)

SeqSet(s) == {s[k] : k \in DOMAIN s}

\* kv_manager.allocate(req)
allocate(req, free) ==
    LET got == TakeBlocks(free, num_blocks(req))
    IN  [req |-> [req EXCEPT !.block_table = got],
         free |-> free \ SeqSet(got)]

\* kv_manager.append_to_seq(req): one more token's worth of cache space
append_to_seq(req, free) ==
    LET need == num_blocks(req) - Len(req.block_table)
        got == TakeBlocks(free, Max(need, 0))
    IN  [req |-> [req EXCEPT !.block_table = @ \o got, !.appends = @ + 1],
         free |-> free \ SeqSet(got)]

\* kv_manager.remove_seq(req): every block of the sequence back to the pool
remove_seq(req, free) ==
    [req |-> [req EXCEPT !.block_table = <<>>, !.removed = @ + 1],
     free |-> free \cup SeqSet(req.block_table)]

(***************************************************************************)
(* The forward context (attention.set_forward_context,                     *)
(* reset_forward_context): one ambient value, replaced by set and emptied  *)
(* by reset.                                                               *)
(***************************************************************************)
NoContext ==
    [kind |-> "none", cu_seqlens_q |-> <<>>, cu_seqlens_k |-> <<>>,
     max_seqlen_q |-> 0, max_seqlen_k |-> 0, slot_mapping |-> <<>>,
     context_lens |-> <<>>, block_tables |-> <<>>, has_block_tables |-> FALSE]

\* reset_forward_context()
reset_forward_context == NoContext

(***************************************************************************)
(* Batch preparation.                                                      *)
(***************************************************************************)
RECURSIVE CumLens(_, _)
\* the running sums appended to [acc]: cu_seqlens.append(cu_seqlens[-1] + n)
CumLens(acc, lens) ==
    IF lens = <<>> THEN <<>>
    ELSE <<acc + Head(lens)>> \o CumLens(acc + Head(lens), Tail(lens))

\* the cache cells of the blocks of req that are not cached yet
PrefillSlots(req) ==
    IF req.block_table = <<>> THEN <<>>
    ELSE Flatten([k \in 1..(num_blocks(req) - num_cached_blocks(req)) |->
            LET i == num_cached_blocks(req) + k - 1
                start == req.block_table[i + 1] * BlockSize
                end == IF i # num_blocks(req) - 1
                       THEN start + BlockSize
                       ELSE start + last_block_num_tokens(req)
            IN  Range(start, end)])

\* block_table rows padded with -1 to the longest one
PadBlockTables(requests) ==
    LET max_len == SeqMax([k \in DOMAIN requests |-> Len(requests[k].block_table)])
    IN  [k \in DOMAIN requests |->
            requests[k].block_table
            \o Repeat(-1, max_len - Len(requests[k].block_table))]

\* _prepare_prefill(requests): the context it installs and what it returns
prepare_prefill(requests) ==
    LET lens_q == [k \in DOMAIN requests |->
                     SeqLen(requests[k]) - requests[k].num_cached_tokens]
        lens_k == [k \in DOMAIN requests |-> SeqLen(requests[k])]
        cu_q == <<0>> \o CumLens(0, lens_q)
        cu_k == <<0>> \o CumLens(0, lens_k)
        reuse == cu_k[Len(cu_k)] > cu_q[Len(cu_q)]
    IN  [input_ids |-> Flatten([k \in DOMAIN requests |->
                         SubSeq(requests[k].token_ids,
                                requests[k].num_cached_tokens + 1,
                                SeqLen(requests[k]))]),
         positions |-> Flatten([k \in DOMAIN requests |->
                         Range(requests[k].num_cached_tokens,
                               SeqLen(requests[k]))]),
         context |->
            [kind |-> "prefill", cu_seqlens_q |-> cu_q, cu_seqlens_k |-> cu_k,
             max_seqlen_q |-> SeqMax(lens_q), max_seqlen_k |-> SeqMax(lens_k),
             slot_mapping |-> Flatten([k \in DOMAIN requests |->
                                 PrefillSlots(requests[k])]),
             context_lens |-> <<>>,
             block_tables |-> IF reuse THEN PadBlockTables(requests) ELSE <<>>,
             has_block_tables |-> reuse]]

\* the position of the last token of req in the decode step
DecodePosition(req, tts_mode, tts_prompt_len) ==
    IF tts_mode
    THEN (SeqLen(req) - 1) - (tts_prompt_len - 1)
    ELSE SeqLen(req) - 1

\* a slot computed from the fill count without the "- 1"
DecodeSlotPastLast(req) ==
    req.block_table[Len(req.block_table)] * BlockSize
    + last_block_num_tokens(req)

\* the cache cell the decode step writes for req
DecodeSlot(req) ==
    req.block_table[Len(req.block_table)] * BlockSize
    + last_block_num_tokens(req) - 1

\* _prepare_decode(requests), for a non-empty list
prepare_decode(requests, tts_mode, tts_prompt_len) ==
    [input_ids |-> [k \in DOMAIN requests |-> last_token(requests[k])],
     positions |-> [k \in DOMAIN requests |->
                      DecodePosition(requests[k], tts_mode, tts_prompt_len)],
     context |->
        [kind |-> "decode", cu_seqlens_q |-> <<>>, cu_seqlens_k |-> <<>>,
         max_seqlen_q |-> 0, max_seqlen_k |-> 0,
         slot_mapping |-> [k \in DOMAIN requests |-> DecodeSlot(requests[k])],
         context_lens |-> [k \in DOMAIN requests |-> SeqLen(requests[k])],
         block_tables |-> PadBlockTables(requests),
         has_block_tables |-> TRUE]]

\* an emptiness test that never finds the list empty
NeverEmpty(requests) == FALSE

\* "if not requests: raise RuntimeError"
NoRequests(requests) == requests = <<>>

(***************************************************************************)
(* Capture and replay of the decode plans.                                 *)
(***************************************************************************)
\* columns of the block-table buffer
max_num_blocks == (GraphMaxLen + BlockSize - 1) \div BlockSize

\* what one row of a decode forward call computes from: the token through
\* the conditioning-embedding path (with its clamped position) or as a raw
\* token id, the cache cell it writes, its context length, and the blocks
\* that hold the context (the attention layer reads the cells below the
\* context length and none past them).  The hidden state of the row is a
\* function of these; a row of a zeroed output buffer is NoHidden.
RowHidden(use_tts, token, pos, slot, len, table) ==
    [mode |-> IF use_tts THEN "embeds" ELSE "ids",
     token |-> token,
     pos |-> IF use_tts THEN Max(pos, 0) ELSE 0,
     slot |-> slot,
     len |-> len,
     blocks |-> SubSeq(table, 1, Min(BlocksFor(len), Len(table)))]

NoHidden ==
    [mode |-> "zero", token |-> 0, pos |-> 0, slot |-> 0, len |-> 0,
     blocks |-> <<>>]

\* the direct forward call of _run_decode_with_graph: every row of the
\* inputs, under the context _prepare_decode installed
DirectForward(use_tts_embedding, input_ids, positions, context) ==
    [r \in DOMAIN input_ids |->
        RowHidden(use_tts_embedding, input_ids[r], positions[r],
                  context.slot_mapping[r], context.context_lens[r],
                  context.block_tables[r])]

\* the operations recorded in the plan of size bs, run on the buffers
PlanForward(use_tts, vars, bs) ==
    [r \in 1..bs |->
        RowHidden(use_tts, vars.input_ids[r], vars.positions[r],
                  vars.slot_mapping[r], vars.context_lens[r],
                  vars.block_tables[r])]

\* the input buffers as _capture_cuda_graphs fills them for the last plan
CaptureInputs ==
    LET bs == graph_bs[1]
    IN  [input_ids |-> Repeat(CaptureToken, MaxBs),
         positions |-> Repeat(1, MaxBs),
         slot_mapping |-> [r \in 1..MaxBs |-> IF r <= bs THEN r - 1 ELSE 0],
         context_lens |-> [r \in 1..MaxBs |-> IF r <= bs THEN bs + 1 ELSE 0],
         block_tables |-> [r \in 1..MaxBs |-> Repeat(0, max_num_blocks)]]

\* self.graph_vars as _capture_cuda_graphs leaves it: the input buffers and
\* the output buffer the warm-up and the recording wrote
CapturedVars(use_tts) ==
    LET bs == graph_bs[1]
        out == PlanForward(use_tts, CaptureInputs, bs)
    IN  [input_ids |-> CaptureInputs.input_ids,
         positions |-> CaptureInputs.positions,
         slot_mapping |-> CaptureInputs.slot_mapping,
         context_lens |-> CaptureInputs.context_lens,
         block_tables |-> CaptureInputs.block_tables,
         outputs |-> [r \in 1..MaxBs |-> IF r <= bs THEN out[r] ELSE NoHidden]]

\* the context the capture installs for batch size bs: slices of the buffers
CaptureContext(vars, bs) ==
    [kind |-> "decode", cu_seqlens_q |-> <<>>, cu_seqlens_k |-> <<>>,
     max_seqlen_q |-> 0, max_seqlen_k |-> 0,
     slot_mapping |-> SubSeq(vars.slot_mapping, 1, bs),
     context_lens |-> SubSeq(vars.context_lens, 1, bs),
     block_tables |-> SubSeq(vars.block_tables, 1, bs),
     has_block_tables |-> TRUE]

\* "use_tts": the input mode the capture records the plans in
CaptureUsesTts(args) == args.tts_mel_embedding /\ args.tts_text_pos_embedding

\* a capture test that does not look at self.graph_captured
CaptureEveryCall(use_graph, captured) == use_graph

\* a capture test with the negation dropped
CaptureWhenCaptured(use_graph, captured) == use_graph /\ captured

\* "if self.use_cuda_graph and not self.graph_captured"
NeedsCapture(use_graph, captured) == use_graph /\ ~captured

\* next((x for x in self.graph_bs if x >= bs), None); 0 stands for None
SelectGraphBs(bs) ==
    LET ok == {k \in DOMAIN graph_bs : graph_bs[k] >= bs}
    IN  IF ok = {} THEN 0
        ELSE graph_bs[CHOOSE k \in ok : \A j \in ok : k <= j]

\* a fallback test with the negation of "not self.graphs" dropped
DirectWhenPlans(use_graph, plans, bs) ==
    \/ ~use_graph
    \/ plans # {}
    \/ SelectGraphBs(bs) = 0

\* whether _run_decode_with_graph takes the direct forward call
DirectPath(use_graph, plans, bs) ==
    \/ ~use_graph
    \/ plans = {}
    \/ SelectGraphBs(bs) = 0

\* a buffer fill that leaves the cache-slot and context-length rows past the
\* batch as they were
FillActiveRows(vars, input_ids, positions, context) ==
    LET bs == Len(input_ids)
        cols == IF context.block_tables = <<>> THEN 0
                ELSE Len(context.block_tables[1])
    IN  [input_ids |-> [r \in 1..MaxBs |->
                          IF r <= bs THEN input_ids[r] ELSE vars.input_ids[r]],
         positions |-> [r \in 1..MaxBs |->
                          IF r <= bs THEN positions[r] ELSE vars.positions[r]],
         slot_mapping |-> [r \in 1..MaxBs |->
                          IF r <= bs THEN context.slot_mapping[r]
                          ELSE vars.slot_mapping[r]],
         context_lens |-> [r \in 1..MaxBs |->
                          IF r <= bs THEN context.context_lens[r]
                          ELSE vars.context_lens[r]],
         block_tables |-> [r \in 1..MaxBs |-> [c \in 1..max_num_blocks |->
                          IF r <= bs /\ c <= cols
                          THEN context.block_tables[r][c]
                          ELSE vars.block_tables[r][c]]],
         outputs |-> vars.outputs]

\* a buffer fill without the write of the block-table buffer
FillWithoutTables(vars, input_ids, positions, context) ==
    LET bs == Len(input_ids)
    IN  [input_ids |-> [r \in 1..MaxBs |->
                          IF r <= bs THEN input_ids[r] ELSE vars.input_ids[r]],
         positions |-> [r \in 1..MaxBs |->
                          IF r <= bs THEN positions[r] ELSE vars.positions[r]],
         slot_mapping |-> [r \in 1..MaxBs |->
                          IF r <= bs THEN context.slot_mapping[r] ELSE -1],
         context_lens |-> [r \in 1..MaxBs |->
                          IF r <= bs THEN context.context_lens[r] ELSE 0],
         block_tables |-> vars.block_tables,
         outputs |-> vars.outputs]

\* the buffers after the writes that precede graph.replay()
FillVars(vars, input_ids, positions, context) ==
    LET bs == Len(input_ids)
        cols == IF context.block_tables = <<>> THEN 0
                ELSE Len(context.block_tables[1])
    IN  [input_ids |-> [r \in 1..MaxBs |->
                          IF r <= bs THEN input_ids[r] ELSE vars.input_ids[r]],
         positions |-> [r \in 1..MaxBs |->
                          IF r <= bs THEN positions[r] ELSE vars.positions[r]],
         slot_mapping |-> [r \in 1..MaxBs |->
                          IF r <= bs THEN context.slot_mapping[r] ELSE -1],
         context_lens |-> [r \in 1..MaxBs |->
                          IF r <= bs THEN context.context_lens[r] ELSE 0],
         block_tables |-> [r \in 1..MaxBs |-> [c \in 1..max_num_blocks |->
                          IF r <= bs /\ c <= cols
                          THEN context.block_tables[r][c]
                          ELSE vars.block_tables[r][c]]],
         outputs |-> vars.outputs]

\* graph.replay() of the plan of size bs recorded in mode use_tts: the
\* recorded operations read the buffers and write rows 0..bs-1 of the
\* output buffer
Replay(vars, use_tts, bs) ==
    LET out == PlanForward(use_tts, vars, bs)
    IN  [vars EXCEPT !.outputs =
            [r \in 1..MaxBs |-> IF r <= bs THEN out[r] ELSE @[r]]]

\* graph_vars["outputs"][:bs]
SliceOutputs(vars, bs) == SubSeq(vars.outputs, 1, bs)

(***************************************************************************)
(* Sampling and the stop test.                                             *)
(***************************************************************************)
\* the logits rows the mocked model returns: a tie, and one row per token
LogitSet == {<<1, 1, 0>>, <<0, 1, 0>>, <<0, 1, 2>>}

\* a value drawn for each of the first FreeRows rows, repeated for the rest
Rows(bs, S) ==
    {[i \in 1..bs |-> f[Min(i, FreeRows)]] : f \in [1..Min(bs, FreeRows) -> S]}

\* an arg-max that resolves ties to the last index
ArgMaxLast(l) ==
    CHOOSE v \in DOMAIN l :
        /\ \A w \in DOMAIN l : l[w] <= l[v]
        /\ \A w \in DOMAIN l : l[w] = l[v] => w <= v

\* torch.argmax(logits, dim=-1), one row: the first index of the maximum
ArgMax(l) ==
    CHOOSE v \in DOMAIN l :
        /\ \A w \in DOMAIN l : l[w] <= l[v]
        /\ \A w \in DOMAIN l : l[w] = l[v] => v <= w

\* the logits matrices a forward call of bs rows can return; for temperature
\* > 0 the sample does not depend on them, and one matrix stands for all
LogitsChoices(bs, temperature) ==
    IF temperature > 0
    THEN {[i \in 1..bs |-> <<0, 1, 0>>]}
    ELSE Rows(bs, LogitSet)

\* the token lists a sampling step can produce from the logits: the arg-max
\* for temperature 0, and for temperature > 0 any token per row (the softmax
\* gives every token a positive probability, the exponential noise is free)
SampleChoices(logits, temperature) ==
    IF temperature > 0
    THEN Rows(Len(logits), Vocab)
    ELSE {[i \in DOMAIN logits |-> ArgMax(logits[i])]}

\* "stop_tokens and token_id in stop_tokens"
IsStop(token_id, stop_tokens) == stop_tokens # {} /\ token_id \in stop_tokens

\* a stop test that halts only once every row has sampled a stop token
AllStop(tokens, stop_tokens) ==
    \A i \in DOMAIN tokens : IsStop(tokens[i], stop_tokens)

\* hit_stop_on_first / should_stop after the loop over the sampled tokens
AnyStop(tokens, stop_tokens) ==
    \E i \in DOMAIN tokens : IsStop(tokens[i], stop_tokens)

\* an accumulation that drops the whole step when one row stops
AccumulateUnlessHalt(generated, tokens, stop_tokens) ==
    [i \in DOMAIN generated |->
        IF i \in DOMAIN tokens
           /\ ~(\E k \in DOMAIN tokens : IsStop(tokens[k], stop_tokens))
        THEN Append(generated[i], tokens[i])
        ELSE generated[i]]

\* generated_tokens after the loop over the sampled tokens
Accumulate(generated, tokens, stop_tokens) ==
    [i \in DOMAIN generated |->
        IF i \in DOMAIN tokens /\ ~IsStop(tokens[i], stop_tokens)
        THEN Append(generated[i], tokens[i])
        ELSE generated[i]]

RECURSIVE AppendTokensOnly(_, _, _, _, _)
\* an append loop without the kv_manager.append_to_seq call
AppendTokensOnly(seqs, free, tokens, stop_tokens, i) ==
    IF i > Len(seqs) THEN [seqs |-> seqs, free |-> free]
    ELSE IF IsStop(tokens[i], stop_tokens)
         THEN AppendTokensOnly(seqs, free, tokens, stop_tokens, i + 1)
         ELSE AppendTokensOnly(
                  [seqs EXCEPT ![i] = append_token(seqs[i], tokens[i])],
                  free, tokens, stop_tokens, i + 1)

RECURSIVE AppendEveryRow(_, _, _, _, _)
\* an append loop without the stop test
AppendEveryRow(seqs, free, tokens, stop_tokens, i) ==
    IF i > Len(seqs) THEN [seqs |-> seqs, free |-> free]
    ELSE LET r == append_to_seq(append_token(seqs[i], tokens[i]), free)
         IN  AppendEveryRow([seqs EXCEPT ![i] = r.req], r.free,
                            tokens, stop_tokens, i + 1)

RECURSIVE AppendRows(_, _, _, _, _)
\* append_token and kv_manager.append_to_seq for the rows from i on whose
\* token is not a stop token, in row order
AppendRows(seqs, free, tokens, stop_tokens, i) ==
    IF i > Len(seqs) THEN [seqs |-> seqs, free |-> free]
    ELSE IF IsStop(tokens[i], stop_tokens)
         THEN AppendRows(seqs, free, tokens, stop_tokens, i + 1)
         ELSE LET r == append_to_seq(append_token(seqs[i], tokens[i]), free)
              IN  AppendRows([seqs EXCEPT ![i] = r.req], r.free,
                             tokens, stop_tokens, i + 1)

RECURSIVE RemoveRows(_, _, _)
\* kv_manager.remove_seq for the rows from i on
RemoveRows(seqs, free, i) ==
    IF i > Len(seqs) THEN [seqs |-> seqs, free |-> free]
    ELSE LET r == remove_seq(seqs[i], free)
         IN  RemoveRows([seqs EXCEPT ![i] = r.req], r.free, i + 1)

\* a release loop that is left out
ReleaseNone(seqs, free) == [seqs |-> seqs, free |-> free]

\* "for req in sequences: self.kv_manager.remove_seq(req)"
ReleaseAll(seqs, free) == RemoveRows(seqs, free, 1)

RECURSIVE AdmitRows(_, _, _)
\* Seq(token_ids) and kv_manager.allocate for each row of the batch
AdmitRows(rows, free, i) ==
    IF i > Len(rows) THEN [seqs |-> <<>>, free |-> free]
    ELSE LET r == allocate(NewSeq(rows[i]), free)
             rest == AdmitRows(rows, r.free, i + 1)
         IN  [seqs |-> <<r.req>> \o rest.seqs, free |-> rest.free]

\* tts_embeddings standing for None
NoEmbeddings == -1

\* the token ids sequence i is admitted with
AdmitTokenIds(a, i) ==
    LET actual_seq_len == IF a.tts_embeddings # NoEmbeddings
                          THEN a.tts_embeddings + 1
                          ELSE a.seq_len
    IN  IF a.tts_embeddings # NoEmbeddings /\ actual_seq_len > 0
        THEN [k \in 1..actual_seq_len |->
                IF k < actual_seq_len THEN PadToken
                ELSE IF a.seq_len > 0 THEN a.input_ids[i][a.seq_len]
                ELSE PadToken]
        ELSE a.input_ids[i]

\* output_ids of the exit taken when the first token is a stop token
AssembleOnFirstStop(a, generated) ==
    [i \in 1..a.batch_size |-> a.input_ids[i] \o generated[i]]

\* output_ids of the exit after the decode loop
AssembleAfterLoop(a, seqs, generated) ==
    [i \in 1..a.batch_size |->
        SubSeq(seqs[i].token_ids, 1, seqs[i].num_prompt_tokens)
        \o generated[i]]

\* torch.tensor(output_ids) accepts rows of one length only
Rectangular(rows) ==
    \A i, j \in DOMAIN rows : Len(rows[i]) = Len(rows[j])

\* a ceiling check that is off by one
CeilingOffByOne(batch_size) == batch_size > CudaGraphLimit + 1

\* "if batch_size > 8: raise RuntimeError"
CeilingExceeded(batch_size) == batch_size > CudaGraphLimit

\* "remaining_tokens = max_new_tokens - 1"; range(remaining_tokens) has
\* another step
LoopContinues(stp, max_new_tokens) == stp < max_new_tokens - 1

(***************************************************************************)
(* The arguments of a generate() call.                                     *)
(***************************************************************************)
\* row i of a prompt matrix with L columns: rows and columns all differ
DistinctRow(i, L) == [j \in 1..L |-> ((i + j) % 3) + 1]

\* row i of the matrix the embedding-driven callers pass: placeholders, then
\* the start token
FakeRow(i, L) == [j \in 1..L |-> IF j < L THEN PadToken ELSE 2]

PromptRow(kind, i, L) == IF kind = "fake" THEN FakeRow(i, L) ELSE DistinctRow(i, L)

Args(bs, L, kind, mnt, temp, stop, emb, mods) ==
    [input_ids |-> [i \in 1..bs |-> PromptRow(kind, i, L)],
     batch_size |-> bs,
     seq_len |-> L,
     max_new_tokens |-> mnt,
     temperature |-> temp,
     stop_tokens |-> stop,
     tts_embeddings |-> emb,
     tts_mel_embedding |-> mods,
     tts_text_pos_embedding |-> mods]

\* calls on raw token ids
TokenArgs ==
    {Args(bs, L, "distinct", mnt, temp, stop, NoEmbeddings, FALSE) :
        bs \in BatchSizes, L \in 1..MaxPromptLen, mnt \in 0..MaxNew,
        temp \in {0, 1}, stop \in StopChoices}

\* calls in the embedding-driven mode: one row, since the prefill joins one
\* start embedding onto the conditioning embeddings
EmbeddingArgs ==
    {Args(1, L, kind, mnt, temp, stop, emb, mods) :
        L \in 1..MaxPromptLen, kind \in {"distinct", "fake"},
        mnt \in 0..MaxNew, temp \in {0, 1}, stop \in StopChoices,
        emb \in 1..MaxEmb, mods \in BOOLEAN}

\* the calls of a series on one engine: one greedy row, on raw token ids or
\* in the embedding-driven mode, with or without the embedding modules
SeriesArgs ==
    {Args(1, 1, "distinct", mnt, 0, {}, NoEmbeddings, FALSE) :
        mnt \in 1..MaxNew}
    \cup {Args(1, 1, "fake", mnt, 0, {}, 1, mods) :
        mnt \in 1..MaxNew, mods \in BOOLEAN}

NoArgs == Args(0, 0, "distinct", 0, 0, {}, NoEmbeddings, FALSE)

\* the pool can hold every token the call can add
PoolHolds(a, free) ==
    LET L == IF a.tts_embeddings # NoEmbeddings
             THEN a.tts_embeddings + 1 ELSE a.seq_len
    IN  a.batch_size * BlocksFor(L + Max(a.max_new_tokens, 1))
        <= Cardinality(free)

(***************************************************************************)
(* State.                                                                  *)
(***************************************************************************)
VARIABLES
    use_cuda_graph,     \* self.use_cuda_graph
    graph_captured,     \* self.graph_captured
    graphs,             \* self.graphs: the batch sizes that have a plan
    graph_vars,         \* self.graph_vars: <<>> for None, <<buffers>>
    capture_tts,        \* the input mode recorded in the plans
    free_blocks,        \* the free block ids of self.kv_manager
    current_sequences,  \* self.current_sequences, as row numbers
    tts_mode,           \* self._tts_mode
    tts_prompt_len,     \* self._tts_prompt_len
    ctx,                \* the forward context
    pc,                 \* the position of the running generate() call
    calls,              \* generate() calls started
    call_limit,         \* generate() calls the run makes
    args,               \* the arguments of the running call
    sequences,          \* sequences
    generated_tokens,   \* generated_tokens
    token_list,         \* first_token_list / next_token_list
    step,               \* decode steps completed
    should_stop,        \* should_stop
    decode_ids,         \* decode_ids
    decode_pos,         \* decode_pos
    output_ids,         \* output_ids
    output,             \* the returned tensor: <<>> or <<rows>>
    hist                \* what the call has done so far

engine == <<use_cuda_graph, graph_captured, graphs, graph_vars, capture_tts>>
callv == <<sequences, generated_tokens, token_list, step, should_stop,
           decode_ids, decode_pos, output_ids, output>>
vars == <<use_cuda_graph, graph_captured, graphs, graph_vars, capture_tts,
          free_blocks, current_sequences, tts_mode, tts_prompt_len, ctx, pc,
          calls, call_limit, args, sequences, generated_tokens, token_list,
          step, should_stop, decode_ids, decode_pos, output_ids, output, hist>>

NoHist ==
    [logits |-> <<>>,       \* the logits of each sampling step (greedy calls)
     free_at_entry |-> {},  \* the pool when the call started
     captured_at_entry |-> FALSE,  \* self.graph_captured when it started
     exit |-> "none",       \* the exit taken: first_stop, loop
     halt_step |-> 0,       \* the decode step in which a stop token was sampled
     halt_rows |-> {},      \* the rows that sampled it
     first_rows |-> {},     \* the rows whose first token was a stop token
     prepares |-> 0,        \* _prepare_decode calls
     decode_runs |-> 0,     \* decode forward calls executed
     path |-> "none",       \* the path of the last one: direct, replay
     plan |-> 0,            \* the size of the plan it replayed, 0 for none
     hidden |-> <<>>,       \* the hidden states it returned, one per row
     preps |-> <<>>,        \* the context of each _prepare_decode call
     err |-> "none",        \* the error that ended the call
     site |-> "none"]       \* the function that raised it

Fail(e, where) == [hist EXCEPT !.err = e, !.site = where]

Init ==
    /\ use_cuda_graph \in BOOLEAN
    /\ graph_captured = FALSE
    /\ graphs = {}
    /\ graph_vars = <<>>
    /\ capture_tts = FALSE
    /\ free_blocks = 0..(NumBlocks - 1)
    /\ current_sequences = <<>>
    /\ tts_mode = FALSE
    /\ tts_prompt_len = 0
    /\ ctx = NoContext
    /\ pc = "idle"
    /\ calls = 0
    /\ call_limit = 1
    /\ args = NoArgs
    /\ sequences = <<>>
    /\ generated_tokens = <<>>
    /\ token_list = <<>>
    /\ step = 0
    /\ should_stop = FALSE
    /\ decode_ids = <<>>
    /\ decode_pos = <<>>
    /\ output_ids = <<>>
    /\ output = <<>>
    /\ hist = NoHist

(***************************************************************************)
(* generate()                                                              *)
(***************************************************************************)
\* entry: the mode flags, and whether the plans are captured first
StartGenerate(a) ==
    /\ pc \in {"idle", "returned", "failed"}
    /\ calls < call_limit
    /\ PoolHolds(a, free_blocks)
    /\ calls' = calls + 1
    /\ args' = a
    /\ tts_mode' = (a.tts_embeddings # NoEmbeddings)
    /\ tts_prompt_len' = IF a.tts_embeddings # NoEmbeddings THEN a.seq_len ELSE 0
    /\ sequences' = <<>>
    /\ generated_tokens' = <<>>
    /\ token_list' = <<>>
    /\ step' = 0
    /\ should_stop' = FALSE
    /\ decode_ids' = <<>>
    /\ decode_pos' = <<>>
    /\ output_ids' = <<>>
    /\ output' = <<>>
    /\ hist' = [NoHist EXCEPT !.free_at_entry = free_blocks,
                             !.captured_at_entry = graph_captured]
    /\ pc' = IF NeedsCapture(use_cuda_graph, graph_captured)
             THEN "capture" ELSE "admit"
    /\ UNCHANGED <<engine, free_blocks, current_sequences, ctx, call_limit>>

\* _capture_cuda_graphs() runs to its end
Capture ==
    /\ pc = "capture"
    /\ graphs' = graphs \cup SeqSet(graph_bs)
    /\ graph_vars' = <<CapturedVars(CaptureUsesTts(args))>>
    /\ capture_tts' = CaptureUsesTts(args)
    /\ graph_captured' = TRUE
    /\ ctx' = reset_forward_context
    /\ pc' = "admit"
    /\ UNCHANGED <<use_cuda_graph, free_blocks, current_sequences, tts_mode,
                   tts_prompt_len, calls, call_limit, args, callv, hist>>

\* a forward call of the capture raises: the context it installed stays,
\* and no plan and no buffer has been stored (self.graphs[bs] and
\* self.graph_vars are assigned after the forward calls)
CaptureFails ==
    /\ pc = "capture"
    /\ ctx' = CaptureContext(CaptureInputs, graph_bs[1])
    /\ hist' = Fail("forward", "_capture_cuda_graphs")
    /\ pc' = "failed"
    /\ UNCHANGED <<engine, free_blocks, current_sequences, tts_mode,
                   tts_prompt_len, calls, call_limit, args, callv>>

\* one Seq per row, its blocks allocated
Admit ==
    /\ pc = "admit"
    /\ LET rows == [i \in 1..args.batch_size |-> AdmitTokenIds(args, i)]
           r == AdmitRows(rows, free_blocks, 1)
       IN  /\ sequences' = r.seqs
           /\ free_blocks' = r.free
           /\ current_sequences' = [i \in 1..args.batch_size |-> i]
    /\ pc' = "prefill"
    /\ UNCHANGED <<engine, tts_mode, tts_prompt_len, ctx, calls, call_limit,
                   args, generated_tokens, token_list, step, should_stop,
                   decode_ids, decode_pos, output_ids, output, hist>>

\* _prepare_prefill(sequences)
PreparePrefill ==
    /\ pc = "prefill"
    /\ ctx' = prepare_prefill(sequences).context
    /\ pc' = "prefill_forward"
    /\ UNCHANGED <<engine, free_blocks, current_sequences, tts_mode,
                   tts_prompt_len, calls, call_limit, args, callv, hist>>

\* the prefill forward call returns; the context is reset
PrefillForward ==
    /\ pc = "prefill_forward"
    /\ ctx' = reset_forward_context
    /\ pc' = "prefill_sample"
    /\ UNCHANGED <<engine, free_blocks, current_sequences, tts_mode,
                   tts_prompt_len, calls, call_limit, args, callv, hist>>

\* the prefill forward call raises
PrefillForwardFails ==
    /\ pc = "prefill_forward"
    /\ hist' = Fail("forward", "model")
    /\ pc' = "failed"
    /\ UNCHANGED <<engine, free_blocks, current_sequences, tts_mode,
                   tts_prompt_len, ctx, calls, call_limit, args, callv>>

\* the logits a greedy call's sampling steps saw, in order
LogLogits(h, logits, temperature) ==
    IF temperature > 0 THEN h.logits ELSE Append(h.logits, logits)

\* output_ids is built and handed to torch.tensor(output_ids), which returns
\* the matrix or raises on rows of different lengths; h is the history of
\* the call up to here
Deliver(rows, h) ==
    /\ output_ids' = rows
    /\ IF Rectangular(rows)
       THEN /\ output' = <<rows>>
            /\ hist' = h
            /\ pc' = "returned"
       ELSE /\ output' = <<>>
            /\ hist' = [h EXCEPT !.err = "ragged", !.site = "generate"]
            /\ pc' = "failed"

\* the first token: sampled from the prefill logits; on a stop token the
\* sequences are released and the output assembled, otherwise every row is
\* advanced by its token
PrefillSample ==
    /\ pc = "prefill_sample"
    /\ \E logits \in LogitsChoices(args.batch_size, args.temperature) :
       \E first_token_list \in SampleChoices(logits, args.temperature) :
        LET generated == Accumulate([i \in 1..args.batch_size |-> <<>>],
                                    first_token_list, args.stop_tokens)
            hit_stop_on_first == AnyStop(first_token_list, args.stop_tokens)
            h == [hist EXCEPT
                    !.logits = LogLogits(hist, logits, args.temperature),
                    !.first_rows = {i \in DOMAIN first_token_list :
                        IsStop(first_token_list[i], args.stop_tokens)}]
        IN  /\ token_list' = first_token_list
            /\ generated_tokens' = generated
            /\ IF hit_stop_on_first
               THEN LET r == ReleaseAll(sequences, free_blocks)
                    IN  /\ sequences' = r.seqs
                        /\ free_blocks' = r.free
                        /\ current_sequences' = <<>>
                        /\ Deliver(AssembleOnFirstStop(args, generated),
                                   [h EXCEPT !.exit = "first_stop"])
               ELSE LET r == AppendRows(sequences, free_blocks,
                                        first_token_list, {}, 1)
                    IN  /\ sequences' = r.seqs
                        /\ free_blocks' = r.free
                        /\ hist' = h
                        /\ pc' = "decode_loop"
                        /\ UNCHANGED <<current_sequences, output_ids, output>>
    /\ UNCHANGED <<engine, tts_mode, tts_prompt_len, ctx, calls, call_limit,
                   args, step, should_stop, decode_ids, decode_pos>>

\* the head of a decode step: _prepare_decode(sequences)
PrepareDecode ==
    /\ pc = "decode_loop"
    /\ ~should_stop
    /\ LoopContinues(step, args.max_new_tokens)
    /\ IF NoRequests(sequences)
       THEN /\ hist' = [Fail("no_requests", "_prepare_decode")
                          EXCEPT !.prepares = @ + 1]
            /\ pc' = "failed"
            /\ UNCHANGED <<ctx, decode_ids, decode_pos>>
       ELSE LET p == prepare_decode(sequences, tts_mode, tts_prompt_len)
            IN  /\ ctx' = p.context
                /\ decode_ids' = p.input_ids
                /\ decode_pos' = p.positions
                /\ hist' = [hist EXCEPT !.prepares = @ + 1,
                                         !.preps = Append(@, p.context)]
                /\ pc' = "decode_forward"
    /\ UNCHANGED <<engine, free_blocks, current_sequences, tts_mode,
                   tts_prompt_len, calls, call_limit, args, sequences,
                   generated_tokens, token_list, step, should_stop,
                   output_ids, output>>

\* the error the step raises between _prepare_decode and the forward call,
\* "none" if it raises none: the ceiling check of generate(), then the
\* checks of _run_decode_with_graph() on the path it takes
DecodeError(batch_size, direct, mode, a, gvars) ==
    IF CeilingExceeded(batch_size) THEN "ceiling"
    ELSE IF direct
    THEN IF mode /\ ~CaptureUsesTts(a) THEN "assert" ELSE "none"
    ELSE IF gvars = <<>> THEN "graph_vars" ELSE "none"

\* the function that raises DecodeError
DecodeErrorSite(e) ==
    IF e = "ceiling" THEN "generate" ELSE "_run_decode_with_graph"

\* a decode step stopped by the ceiling check or by _run_decode_with_graph
DecodeRaises ==
    /\ pc = "decode_forward"
    /\ LET e == DecodeError(args.batch_size,
                    DirectPath(use_cuda_graph, graphs, Len(decode_ids)),
                    tts_mode, args, graph_vars)
       IN  /\ e # "none"
           /\ hist' = Fail(e, DecodeErrorSite(e))
    /\ pc' = "failed"
    /\ UNCHANGED <<engine, free_blocks, current_sequences, tts_mode,
                   tts_prompt_len, ctx, calls, call_limit, args, callv>>

\* the decode forward call raises, on either path; on the replay path the
\* buffers are written and their slices installed before it
DecodeForwardFails ==
    /\ pc = "decode_forward"
    /\ LET direct == DirectPath(use_cuda_graph, graphs, Len(decode_ids))
       IN  /\ DecodeError(args.batch_size, direct, tts_mode, args,
                          graph_vars) = "none"
           /\ IF direct
              THEN UNCHANGED <<ctx, graph_vars>>
              ELSE LET filled == FillVars(graph_vars[1], decode_ids,
                                          decode_pos, ctx)
                   IN  /\ graph_vars' = <<filled>>
                       /\ ctx' = CaptureContext(filled,
                                     SelectGraphBs(Len(decode_ids)))
    /\ hist' = Fail("forward", "model")
    /\ pc' = "failed"
    /\ UNCHANGED <<use_cuda_graph, graph_captured, graphs, capture_tts,
                   free_blocks, current_sequences, tts_mode, tts_prompt_len,
                   calls, call_limit, args, callv>>

\* the rest of a decode step: the ceiling check passed,
\* _run_decode_with_graph() returns (direct call, or buffer writes and
\* replay), logits, context reset, sampling, and the loop over the sampled
\* tokens
DecodeStep ==
    /\ pc = "decode_forward"
    /\ LET direct == DirectPath(use_cuda_graph, graphs, Len(decode_ids))
       IN  /\ DecodeError(args.batch_size, direct, tts_mode, args,
                          graph_vars) = "none"
           /\ graph_vars' =
                IF direct THEN graph_vars
                ELSE <<Replay(FillVars(graph_vars[1], decode_ids,
                                       decode_pos, ctx),
                              capture_tts, SelectGraphBs(Len(decode_ids)))>>
           /\ \E logits \in LogitsChoices(args.batch_size, args.temperature) :
              \E next_token_list \in SampleChoices(logits, args.temperature) :
               LET r == AppendRows(sequences, free_blocks, next_token_list,
                                   args.stop_tokens, 1)
                   hit == {i \in DOMAIN next_token_list :
                             IsStop(next_token_list[i], args.stop_tokens)}
               IN  /\ token_list' = next_token_list
                   /\ sequences' = r.seqs
                   /\ free_blocks' = r.free
                   /\ generated_tokens' = Accumulate(generated_tokens,
                                              next_token_list, args.stop_tokens)
                   /\ should_stop' = AnyStop(next_token_list, args.stop_tokens)
                   /\ hist' = [hist EXCEPT
                        !.logits = LogLogits(hist, logits, args.temperature),
                        !.decode_runs = @ + 1,
                        !.path = IF direct THEN "direct" ELSE "replay",
                        !.plan = IF direct THEN 0
                                 ELSE SelectGraphBs(Len(decode_ids)),
                        !.hidden =
                            IF direct
                            THEN DirectForward(tts_mode, decode_ids,
                                               decode_pos, ctx)
                            ELSE SliceOutputs(graph_vars'[1],
                                              Len(decode_ids)),
                        !.halt_step = IF hit # {} /\ @ = 0 THEN step + 1 ELSE @,
                        !.halt_rows = IF hit # {} /\ hist.halt_step = 0
                                      THEN hit ELSE @]
    /\ ctx' = reset_forward_context
    /\ step' = step + 1
    /\ pc' = "decode_loop"
    /\ UNCHANGED <<use_cuda_graph, graph_captured, graphs, capture_tts,
                   current_sequences, tts_mode, tts_prompt_len, calls,
                   call_limit, args, decode_ids, decode_pos, output_ids,
                   output>>

\* after the loop: the sequences are released, the output is assembled and
\* returned
Finish ==
    /\ pc = "decode_loop"
    /\ should_stop \/ ~LoopContinues(step, args.max_new_tokens)
    /\ LET r == ReleaseAll(sequences, free_blocks)
       IN  /\ sequences' = r.seqs
           /\ free_blocks' = r.free
           /\ Deliver(AssembleAfterLoop(args, r.seqs, generated_tokens),
                      [hist EXCEPT !.exit = "loop"])
    /\ current_sequences' = <<>>
    /\ UNCHANGED <<engine, tts_mode, tts_prompt_len, ctx, calls, call_limit,
                   args, generated_tokens, token_list, step, should_stop,
                   decode_ids, decode_pos>>

\* the caller starts a call, on raw token ids or in the embedding-driven
\* mode; a run of several calls draws them from SeriesArgs
CallArgs ==
    IF call_limit = 1 THEN TokenArgs \cup EmbeddingArgs ELSE SeriesArgs

Generate ==
    /\ pc \in {"idle", "returned", "failed"}
    /\ calls < call_limit
    /\ \E a \in CallArgs : StartGenerate(a)

Next ==
    \/ Generate
    \/ Capture
    \/ CaptureFails
    \/ Admit
    \/ PreparePrefill
    \/ PrefillForward
    \/ PrefillForwardFails
    \/ PrefillSample
    \/ PrepareDecode
    \/ DecodeRaises
    \/ DecodeForwardFails
    \/ DecodeStep
    \/ Finish

Spec == Init /\ [][Next]_vars

\* a series of MaxCalls calls on one engine
InitCalls ==
    /\ use_cuda_graph \in BOOLEAN
    /\ graph_captured = FALSE
    /\ graphs = {}
    /\ graph_vars = <<>>
    /\ capture_tts = FALSE
    /\ free_blocks = 0..(NumBlocks - 1)
    /\ current_sequences = <<>>
    /\ tts_mode = FALSE
    /\ tts_prompt_len = 0
    /\ ctx = NoContext
    /\ pc = "idle"
    /\ calls = 0
    /\ call_limit = MaxCalls
    /\ args = NoArgs
    /\ sequences = <<>>
    /\ generated_tokens = <<>>
    /\ token_list = <<>>
    /\ step = 0
    /\ should_stop = FALSE
    /\ decode_ids = <<>>
    /\ decode_pos = <<>>
    /\ output_ids = <<>>
    /\ output = <<>>
    /\ hist = NoHist

SpecCalls == InitCalls /\ [][Next]_vars

(***************************************************************************)
(* Properties.                                                             *)
(***************************************************************************)
\* the call has ended in an error raised after its sequences were admitted
FailedAfterAdmission ==
    /\ pc = "failed"
    /\ hist.err \in {"no_requests", "ceiling", "graph_vars", "forward"}
    /\ hist.site # "_capture_cuda_graphs"

\* the prompt tokens of row i: the row of input_ids on raw token ids, and in
\* the embedding-driven mode the placeholder row the sequence is created with
PromptOf(a, i) ==
    IF a.tts_embeddings = NoEmbeddings
    THEN a.input_ids[i]
    ELSE Repeat(PadToken, a.tts_embeddings) \o <<a.input_ids[i][a.seq_len]>>

\* t is the first index at which l takes its maximum
IsFirstMax(l, t) ==
    /\ t \in DOMAIN l
    /\ \A w \in DOMAIN l : l[w] <= l[t]
    /\ \A w \in DOMAIN l : w < t => l[w] < l[t]

\* C1: whenever generate() returns normally, every sequence the call
\* admitted has been released exactly once, holds no block, every block the
\* call took is back in the pool, and self.current_sequences is empty.
C1_ReleasedOnReturn ==
    pc = "returned" =>
        /\ Len(sequences) = args.batch_size
        /\ \A i \in DOMAIN sequences :
              /\ sequences[i].removed = 1
              /\ sequences[i].block_table = <<>>
        /\ free_blocks = hist.free_at_entry
        /\ current_sequences = <<>>

\* C1 witness: a two-row call that returned after a decode step in which a
\* stop token was sampled
C1_Witness ==
    /\ pc = "returned"
    /\ args.batch_size = 2
    /\ hist.exit = "loop"
    /\ hist.halt_step > 0

\* C2: when generate() is aborted by a failure raised after its sequences
\* were admitted, no sequence of the call still holds cache blocks.
C2_ReleasedOnFailure ==
    FailedAfterAdmission =>
        \A i \in DOMAIN sequences : sequences[i].block_table = <<>>

\* C3: when the result is built, output_ids has batch_size rows and all of
\* them have the same length.
C3_Rectangular ==
    hist.exit # "none" =>
        /\ Len(output_ids) = args.batch_size
        /\ \A i, j \in DOMAIN output_ids :
              Len(output_ids[i]) = Len(output_ids[j])

\* C4: once a row has sampled a stop token in decode step k, the loop has
\* halted for every row: step k is the last step prepared and the last one
\* run, the call is past the loop, and no row holds a token of a later step.
C4_BatchWideHalt ==
    hist.halt_step > 0 =>
        /\ step = hist.halt_step
        /\ hist.prepares = hist.halt_step
        /\ hist.decode_runs = hist.halt_step
        /\ pc \in {"decode_loop", "returned", "failed"}
        /\ pc = "decode_loop" => should_stop
        /\ \A i \in DOMAIN generated_tokens :
              Len(generated_tokens[i]) <= 1 + hist.halt_step
        /\ \A i \in DOMAIN sequences :
              sequences[i].appends <= 1 + hist.halt_step

\* C4 witness: a two-row call that left the loop after its first decode step,
\* in which one row sampled a stop token and the other did not, with a step
\* still remaining
C4_Witness ==
    /\ hist.exit = "loop"
    /\ args.batch_size = 2
    /\ hist.halt_step = 1
    /\ Cardinality(hist.halt_rows) = 1
    /\ LoopContinues(step, args.max_new_tokens)

\* the case of C5: a two-row batch in which the first row, and only it,
\* sampled a stop token in decode step hist.halt_step
FirstRowHalted ==
    /\ args.batch_size = 2
    /\ hist.halt_step > 0
    /\ hist.halt_rows = {1}

\* C5 as stated: in that case the second row has exactly k generated tokens,
\* k the decode step in which the first row sampled its stop token.
C5_SecondRowHasK ==
    FirstRowHalted => Len(generated_tokens[2]) = hist.halt_step

\* C5 amended: in that case the second row has exactly k + 1 generated
\* tokens (the prefill token and one of each decode step 1..k) and the first
\* row has exactly k.
C5_SecondRowHasKPlusOne ==
    FirstRowHalted =>
        /\ Len(generated_tokens[2]) = hist.halt_step + 1
        /\ Len(generated_tokens[1]) = hist.halt_step
        /\ step = hist.halt_step

\* C5 witness: the case with k = 2, the loop left
C5_Witness ==
    /\ FirstRowHalted
    /\ hist.halt_step = 2
    /\ hist.exit = "loop"

\* C6: no row has more than max_new_tokens generated tokens, and the decode
\* loop runs at most max_new_tokens - 1 steps.
C6_AtMostMaxNew ==
    /\ \A i \in DOMAIN generated_tokens :
          Len(generated_tokens[i]) <= args.max_new_tokens
    /\ step <= Max(args.max_new_tokens - 1, 0)

\* C7: a greedy call (temperature 0) without stop tokens and with
\* max_new_tokens = n >= 1 returns, for each row, the prompt followed by
\* exactly n tokens, the j-th of them the first arg-max of the j-th sampling
\* step's logits of that row (the prefill's for j = 1).
C7_Greedy ==
    (/\ pc = "returned"
     /\ args.temperature = 0
     /\ args.stop_tokens = {}
     /\ args.max_new_tokens >= 1) =>
        LET n == args.max_new_tokens
            out == output[1]
        IN  /\ Len(out) = args.batch_size
            /\ Len(hist.logits) = n
            /\ \A i \in 1..args.batch_size :
                  LET P == Len(PromptOf(args, i))
                  IN  /\ Len(out[i]) = P + n
                      /\ SubSeq(out[i], 1, P) = PromptOf(args, i)
                      /\ \A j \in 1..n :
                            IsFirstMax(hist.logits[j][i], out[i][P + j])

\* C7 witness: a two-row greedy call with three new tokens whose prefill
\* logits of the first row were tied
C7_Witness ==
    /\ pc = "returned"
    /\ args.temperature = 0
    /\ args.stop_tokens = {}
    /\ args.max_new_tokens = 3
    /\ args.batch_size = 2
    /\ hist.logits[1][1] = <<1, 1, 0>>

\* C8: on every normal return, row i of the result is the prompt tokens of
\* row i followed by that row's generated tokens, on either exit and in
\* either mode.
C8_PromptThenGenerated ==
    pc = "returned" =>
        \A i \in 1..args.batch_size :
            output[1][i] = PromptOf(args, i) \o generated_tokens[i]

\* C9: no decode forward call runs for a batch of more than 8 sequences; a
\* call that reaches a decode step with more than 8 sequences ends in the
\* ceiling error, with no result assembled or returned.
C9_Ceiling ==
    /\ hist.decode_runs > 0 => args.batch_size <= 8
    /\ (args.batch_size > 8 /\ hist.prepares > 0) =>
          /\ pc \in {"decode_forward", "failed"}
          /\ pc = "failed" => hist.err = "ceiling"
          /\ hist.decode_runs = 0
          /\ output_ids = <<>>
          /\ output = <<>>

\* C9 witness: a call with 9 rows ended by the ceiling error
C9_Witness ==
    /\ pc = "failed"
    /\ hist.err = "ceiling"
    /\ args.batch_size = 9

\* C10: the ceiling error is raised by decode preparation, and the call that
\* ends in it leaves the cache as it found it: no block reserved, no
\* sequence holding a block list or advanced in the cache.
C10_CeilingLeavesCache ==
    hist.err = "ceiling" =>
        /\ hist.site = "_prepare_decode"
        /\ free_blocks = hist.free_at_entry
        /\ \A i \in DOMAIN sequences :
              /\ sequences[i].block_table = <<>>
              /\ sequences[i].appends = 0

\* C11: if any row's token sampled from the prefill logits is a stop token,
\* generate() releases every cache allocation and returns at once: no
\* sequence has a token appended, the allocator's append is never called,
\* and no decode preparation or decode forward call runs, also for the rows
\* that did not stop.
C11_FirstStopReturns ==
    hist.first_rows # {} =>
        /\ pc = "returned"
        /\ hist.exit = "first_stop"
        /\ free_blocks = hist.free_at_entry
        /\ \A i \in DOMAIN sequences :
              /\ SeqLen(sequences[i]) = sequences[i].num_prompt_tokens
              /\ sequences[i].appends = 0
              /\ sequences[i].block_table = <<>>
        /\ hist.prepares = 0
        /\ hist.decode_runs = 0
        /\ step = 0

\* C12: the forward context is cleared after every forward call (the
\* prefill's, each decode step's, each capture's): none is installed when a
\* batch preparation starts, when the first token is sampled, between two
\* decode steps or when generate() has returned.
C12_ContextCleared ==
    pc \in {"prefill", "prefill_sample", "decode_loop", "returned"} =>
        ctx = NoContext

\* the last decode forward call was a replay and nothing was prepared since
JustReplayed ==
    /\ hist.path = "replay"
    /\ hist.decode_runs = hist.prepares

\* C13: replay and the direct forward call are equivalent: for the inputs
\* of a decode step that was replayed, the direct call raises nothing and
\* gives, row by row, the hidden states the replay returned.
C13_ReplayEqualsDirect ==
    JustReplayed =>
        /\ DecodeError(args.batch_size, TRUE, tts_mode, args, graph_vars)
              = "none"
        /\ hist.hidden = DirectForward(tts_mode, decode_ids, decode_pos,
                                       hist.preps[Len(hist.preps)])

AtStepStart ==
    \/ pc = "decode_forward"
    \/ /\ pc = "decode_loop"
       /\ ~should_stop
       /\ LoopContinues(step, args.max_new_tokens)

\* C15: at the start of every decode step, every sequence has
\* prompt_length + N tokens, N the number of generated tokens recorded for
\* its row, and the allocator's append was called exactly N times for it, so
\* that its block list covers its tokens.
C15_AppendsCounted ==
    AtStepStart =>
        \A i \in DOMAIN sequences :
            LET N == Len(generated_tokens[i])
            IN  /\ SeqLen(sequences[i]) = sequences[i].num_prompt_tokens + N
                /\ sequences[i].appends = N
                /\ N = step + 1
                /\ Len(sequences[i].block_table) * BlockSize
                      >= SeqLen(sequences[i])

\* C15 witness: a two-row batch at the start of its second decode step,
\* each sequence grown into a second block
C15_Witness ==
    /\ pc = "decode_forward"
    /\ step = 1
    /\ args.batch_size = 2
    /\ Len(sequences[1].block_table) = 2

\* C16: the cache slot decode preparation derives for a sequence is the
\* cell of its last block at offset fill count - 1 (the cell of its last
\* token); from one preparation to the next the slot of a sequence goes up
\* by exactly 1 until its block is full, and then is the base cell of a
\* block the sequence did not hold before.
C16_SlotAdvances ==
    /\ pc = "decode_forward" =>
          \A i \in DOMAIN sequences :
              LET slot == ctx.slot_mapping[i]
                  req == sequences[i]
              IN  /\ slot \div BlockSize = req.block_table[Len(req.block_table)]
                  /\ slot % BlockSize = (SeqLen(req) - 1) % BlockSize
    /\ \A k \in 1..(Len(hist.preps) - 1) :
          \A i \in DOMAIN hist.preps[k].slot_mapping :
              LET a == hist.preps[k].slot_mapping[i]
                  b == hist.preps[k + 1].slot_mapping[i]
              IN  IF a % BlockSize # BlockSize - 1
                  THEN b = a + 1
                  ELSE /\ b % BlockSize = 0
                       /\ b \div BlockSize
                             \notin SeqSet(hist.preps[k].block_tables[i])
                       /\ b \div BlockSize
                             \in SeqSet(hist.preps[k + 1].block_tables[i])

\* C16 witness: two preparations of a two-row batch, the first of them on
\* the last cell of a block
C16_Witness ==
    /\ Len(hist.preps) = 2
    /\ args.batch_size = 2
    /\ hist.preps[1].slot_mapping[1] % BlockSize = BlockSize - 1

\* this call ran the capture to its end
CapturedInThisCall == graph_captured /\ ~hist.captured_at_entry

\* C17 as stated: capture is lazy, run only when a decode step is about to
\* run: a call has captured only once it has prepared a decode step.
C17_LazyCapture ==
    CapturedInThisCall => hist.prepares > 0

\* C17 amended: capture is run at the entry of generate(): while it runs the
\* call has admitted no sequence and taken no block, and every call on an
\* engine with graph replay enabled that gets past its entry has the plans
\* captured, whether or not it goes on to a decode step.
C17_CaptureAtEntry ==
    /\ pc = "capture" =>
          /\ sequences = <<>>
          /\ free_blocks = hist.free_at_entry
          /\ hist.logits = <<>>
          /\ hist.prepares = 0
    /\ (use_cuda_graph /\ pc \notin {"idle", "capture"}
          /\ hist.site # "_capture_cuda_graphs") => graph_captured

\* C17 witness: a call that returned without a decode step and captured
C17_Witness ==
    /\ pc = "returned"
    /\ CapturedInThisCall
    /\ args.max_new_tokens <= 1
    /\ hist.prepares = 0

\* a decode forward call has just run
JustRan ==
    /\ hist.decode_runs > 0
    /\ hist.decode_runs = hist.prepares

\* C18: a decode step takes the direct forward call exactly if graph replay
\* is disabled, or there is no plan, or the batch is larger than every
\* captured size; otherwise it replays the plan of the smallest captured
\* size >= the batch size and returns the first batch-size rows of the
\* output buffer.
C18_PathSelection ==
    JustRan =>
        LET bs == Len(decode_ids)
            fits == {g \in graphs : g >= bs}
        IN  /\ hist.path \in {"direct", "replay"}
            /\ hist.path = "direct" <=>
                  (~use_cuda_graph \/ graphs = {} \/ fits = {})
            /\ hist.path = "replay" =>
                  /\ hist.plan \in fits
                  /\ \A g \in fits : hist.plan <= g
                  /\ Len(hist.hidden) = bs
                  /\ \A r \in 1..bs :
                        hist.hidden[r] = graph_vars[1].outputs[r]

\* C18 witness: the second decode step of a call was a replay
C18_Witness ==
    /\ JustRan
    /\ hist.path = "replay"
    /\ hist.decode_runs = 2

\* C19: at a replay the buffers hold the current step: rows below the
\* batch size of the token, position, cache-slot and context-length buffers
\* hold the step's values, the other cache-slot rows hold -1 and the other
\* context-length rows 0, and the other token and position rows hold what
\* the capture filled them with, so nothing of an earlier step.
C19_BuffersRepopulated ==
    JustReplayed =>
        LET bs == Len(decode_ids)
            v == graph_vars[1]
            c == hist.preps[Len(hist.preps)]
        IN  \A r \in 1..MaxBs :
                IF r <= bs
                THEN /\ v.input_ids[r] = decode_ids[r]
                     /\ v.positions[r] = decode_pos[r]
                     /\ v.slot_mapping[r] = c.slot_mapping[r]
                     /\ v.context_lens[r] = c.context_lens[r]
                ELSE /\ v.slot_mapping[r] = -1
                     /\ v.context_lens[r] = 0
                     /\ v.input_ids[r] = CaptureToken
                     /\ v.positions[r] = 1

\* C19 witness: the second replay of a call
C19_Witness ==
    /\ JustReplayed
    /\ hist.decode_runs = 2
    /\ pc = "decode_loop"

\* C20: a row that samples a stop token in a decode step is left as it
\* was: nothing is added to its generated tokens or its token history and
\* the allocator's append is not called for it, so no stop token is among
\* any row's generated tokens; the rows of that step that did not sample a
\* stop token are appended and advanced.
C20_StopRowUnchanged ==
    /\ \A i \in DOMAIN generated_tokens :
          \A k \in DOMAIN generated_tokens[i] :
              generated_tokens[i][k] \notin args.stop_tokens
    /\ \A i \in DOMAIN sequences :
          \A k \in DOMAIN sequences[i].token_ids :
              k > sequences[i].num_prompt_tokens =>
                  sequences[i].token_ids[k] \notin args.stop_tokens
    /\ hist.halt_step > 0 =>
          \A i \in DOMAIN sequences :
              LET n == IF i \in hist.halt_rows
                       THEN hist.halt_step ELSE hist.halt_step + 1
                  req == sequences[i]
              IN  /\ Len(generated_tokens[i]) = n
                  /\ SeqLen(req) = req.num_prompt_tokens + n
                  /\ req.appends = n
                  /\ i \notin hist.halt_rows =>
                        /\ generated_tokens[i][n] = token_list[i]
                        /\ last_token(req) = token_list[i]

\* C20 witness: a two-row batch whose second row, and only it, sampled a
\* stop token in the first decode step
C20_Witness ==
    /\ args.batch_size = 2
    /\ hist.halt_step = 1
    /\ hist.halt_rows = {2}
    /\ pc = "decode_loop"

\* C21: decode preparation called with no sequence fails with the fatal
\* error before it builds anything: no context is installed and no sequence
\* or cache state changes; a call on an empty batch that reaches a decode
\* step ends in that error, with no decode forward call and no result.
C21_EmptyBatchAborts ==
    /\ hist.err = "no_requests" =>
          /\ pc = "failed"
          /\ hist.site = "_prepare_decode"
          /\ args.batch_size = 0
          /\ ctx = NoContext
          /\ hist.preps = <<>>
          /\ sequences = <<>>
          /\ free_blocks = hist.free_at_entry
          /\ decode_ids = <<>>
          /\ decode_pos = <<>>
    /\ (args.batch_size = 0 /\ hist.prepares > 0) =>
          /\ pc = "failed"
          /\ hist.err = "no_requests"
          /\ hist.prepares = 1
          /\ hist.decode_runs = 0
          /\ output_ids = <<>>
          /\ output = <<>>

\* C21 witness: a call on an empty batch with a decode step to run, ended
\* by the error of _prepare_decode
C21_Witness ==
    /\ pc = "failed"
    /\ hist.err = "no_requests"
    /\ args.batch_size = 0
    /\ args.max_new_tokens >= 2
    /\ hist.prepares = 1

\* the columns of the block table the last preparation built
PreparedCols ==
    LET c == hist.preps[Len(hist.preps)]
    IN  IF c.block_tables = <<>> THEN 0 ELSE Len(c.block_tables[1])

\* C22 as stated: at every replay each active row of the block-table buffer
\* holds the current step's block table for that row and nothing an
\* earlier decode step or an earlier call wrote: the columns the table does
\* not cover hold what the capture filled them with.
C22_NoStaleBlockIds ==
    JustReplayed =>
        LET c == hist.preps[Len(hist.preps)]
            buf == graph_vars[1].block_tables
        IN  \A r \in 1..Len(decode_ids) :
            \A col \in 1..max_num_blocks :
                IF col <= PreparedCols
                THEN buf[r][col] = c.block_tables[r][col]
                ELSE buf[r][col] = CaptureInputs.block_tables[r][col]

\* C22 amended: at every replay the columns of each active row that the
\* current step's block table covers hold that table, these columns cover
\* every cache cell below the row's context length, and the plan reads the
\* current blocks; the columns past them are left as they were.
C22_CoveredColumnsCurrent ==
    JustReplayed =>
        LET c == hist.preps[Len(hist.preps)]
            buf == graph_vars[1].block_tables
        IN  \A r \in 1..Len(decode_ids) :
                /\ SubSeq(buf[r], 1, PreparedCols) = c.block_tables[r]
                /\ PreparedCols <= max_num_blocks
                /\ PreparedCols * BlockSize >= c.context_lens[r]
                /\ hist.hidden[r].blocks =
                      SubSeq(c.block_tables[r], 1,
                             BlocksFor(c.context_lens[r]))

\* C22 witness: a replay of a later call under a block table of one
\* column, with a block id of an earlier call in the next column of the
\* buffer
C22_Witness ==
    /\ JustReplayed
    /\ calls = 2
    /\ PreparedCols = 1
    /\ graph_vars[1].block_tables[1][2] > 0

\* C23: every plan that is replayed was recorded in the input mode of the
\* call that replays it: on raw token ids for a call on raw token ids, and
\* through the embedding modules for an embedding-driven call.
C23_PlanModeIsCallMode ==
    JustReplayed => capture_tts = tts_mode

=============================================================================
